---- MODULE Spec2Model ----
(***************************************************************************)
(* Model of the cockpit-smb-zfs front-end (src/src/app.tsx, current        *)
(* version, lines 1-2040): the App component and its get-state refresh,    *)
(* the dialogs of the Users, Groups, Shares and Password tabs, the         *)
(* InitialSetup form, the useValidation form-state hook and the field      *)
(* validators.                                                             *)
(*                                                                         *)
(* A JavaScript string is a sequence of one-character strings, so that     *)
(* the validators, startsWith, includes, split and trim are computed on    *)
(* the characters.  null / undefined is the empty sequence None and a      *)
(* present value x is Some(x) = <<x>>.                                     *)
(*                                                                         *)
(* Each action is one event handler or one promise settlement, run to      *)
(* completion: React commits the state a handler sets before the next      *)
(* event is delivered, and the then / catch / finally callbacks of one     *)
(* settled promise run as consecutive microtasks.  A handler reads the     *)
(* values of the render it was created in, which are the unprimed          *)
(* variables.                                                              *)
(***************************************************************************)
EXTENDS Naturals, Sequences, FiniteSets, Bags

None == <<>>
Some(x) == <<x>>

(***************************************************************************)
(* Characters and string primitives                                        *)
(***************************************************************************)
Lower == {"a","b","c","d","e","f","g","h","i","j","k","l","m",
          "n","o","p","q","r","s","t","u","v","w","x","y","z"}
Upper == {"A","B","C","D","E","F","G","H","I","J","K","L","M",
          "N","O","P","Q","R","S","T","U","V","W","X","Y","Z"}
Digit == {"0","1","2","3","4","5","6","7","8","9"}
Octal == {"0","1","2","3","4","5","6","7"}
Space == {" "}

LowerOf ==
  [c \in Upper |->
     CASE c = "A" -> "a" [] c = "B" -> "b" [] c = "C" -> "c" [] c = "D" -> "d"
       [] c = "E" -> "e" [] c = "F" -> "f" [] c = "G" -> "g" [] c = "H" -> "h"
       [] c = "I" -> "i" [] c = "J" -> "j" [] c = "K" -> "k" [] c = "L" -> "l"
       [] c = "M" -> "m" [] c = "N" -> "n" [] c = "O" -> "o" [] c = "P" -> "p"
       [] c = "Q" -> "q" [] c = "R" -> "r" [] c = "S" -> "s" [] c = "T" -> "t"
       [] c = "U" -> "u" [] c = "V" -> "v" [] c = "W" -> "w" [] c = "X" -> "x"
       [] c = "Y" -> "y" [] c = "Z" -> "z"]

\* String.prototype.toLowerCase
toLowerCase(s) == [i \in 1..Len(s) |-> IF s[i] \in Upper THEN LowerOf[s[i]] ELSE s[i]]

\* String.prototype.startsWith
startsWith(s, p) == Len(s) >= Len(p) /\ SubSeq(s, 1, Len(p)) = p

\* String.prototype.includes
includes(s, p) == \E i \in 1..(Len(s) + 1) :
                    i + Len(p) - 1 <= Len(s) /\ SubSeq(s, i, i + Len(p) - 1) = p

\* every character of s is in the class C
AllIn(s, C) == \A i \in 1..Len(s) : s[i] \in C

\* String.prototype.split on a set of one-character separators: the pieces
\* between the separators, the empty ones included
split(s, seps) ==
  LET cuts == {0} \cup { i \in 1..Len(s) : s[i] \in seps } \cup {Len(s) + 1}
      cut == [k \in 1..Cardinality(cuts) |->
                CHOOSE c \in cuts : Cardinality({ d \in cuts : d < c }) = k - 1]
  IN  [k \in 1..(Cardinality(cuts) - 1) |-> SubSeq(s, cut[k] + 1, cut[k + 1] - 1)]

\* String.prototype.trim
RECURSIVE trimStart(_)
trimStart(s) == IF s # <<>> /\ Head(s) \in Space THEN trimStart(Tail(s)) ELSE s

RECURSIVE trimEnd(_)
trimEnd(s) == IF s # <<>> /\ s[Len(s)] \in Space THEN trimEnd(SubSeq(s, 1, Len(s) - 1)) ELSE s

trim(s) == trimEnd(trimStart(s))

\* Array.prototype.filter(u => u) on a list of strings
RECURSIVE filterNonEmpty(_)
filterNonEmpty(l) ==
  IF l = <<>> THEN <<>>
  ELSE IF Head(l) = <<>> THEN filterNonEmpty(Tail(l))
  ELSE <<Head(l)>> \o filterNonEmpty(Tail(l))

(***************************************************************************)
(* Validators (ValidationResult: isValid and an optional error)            *)
(***************************************************************************)
Valid == [isValid |-> TRUE, error |-> None]
Invalid(text, itemType, name) ==
  [isValid |-> FALSE, error |-> Some([text |-> text, itemType |-> itemType, name |-> name])]

NameSeparators == {".", "_", "-", ":"}

\* /^[a-z_][a-z0-9_-]{0,31}$/
MatchesAccountName(name) ==
  /\ Len(name) >= 1 /\ Len(name) <= 32
  /\ name[1] \in Lower \cup {"_"}
  /\ AllIn(Tail(name), Lower \cup Digit \cup {"_", "-"})

\* /^[a-zA-Z0-9][a-zA-Z0-9_.\-:]{0,79}$/
MatchesShareName(name) ==
  /\ Len(name) >= 1 /\ Len(name) <= 80
  /\ name[1] \in Lower \cup Upper \cup Digit
  /\ AllIn(Tail(name), Lower \cup Upper \cup Digit \cup NameSeparators)

\* faulty variant: the empty-component test of a share name that misses a trailing separator
HasAdjacentSeparators(name) ==
  \E i \in 1..(Len(name) - 1) : name[i] \in NameSeparators /\ name[i + 1] \in NameSeparators

\* name.split(/[._\-:]/).some(component => component === "")
HasEmptyComponent(name) ==
  LET parts == split(name, NameSeparators)
  IN  \E i \in 1..Len(parts) : parts[i] = <<>>

\* /^(?!-)[A-Za-z0-9-]{1,15}(?<!-)$/
MatchesNetbiosName(name) ==
  /\ Len(name) >= 1 /\ Len(name) <= 15
  /\ AllIn(name, Lower \cup Upper \cup Digit \cup {"-"})
  /\ name[1] # "-"
  /\ name[Len(name)] # "-"

\* /^[a-zA-Z0-9._-]+$/
MatchesGenericName(name) ==
  Len(name) >= 1 /\ AllIn(name, Lower \cup Upper \cup Digit \cup {".", "_", "-"})

validateName(name, itemType) ==
  IF name = <<>> THEN Invalid("name is required.", itemType, name)
  ELSE IF itemType \in {"user", "group", "owner"}
    THEN IF ~MatchesAccountName(name)
           THEN Invalid("is invalid. Must be lowercase, start with letter/underscore, max 32 chars.",
                        itemType, name)
           ELSE Valid
  ELSE IF itemType = "share"
    THEN IF ~MatchesShareName(name) \/ HasEmptyComponent(name)
           THEN Invalid("is invalid. Must start with letter/number, no empty components, max 80 chars.",
                        itemType, name)
           ELSE Valid
  ELSE IF itemType \in {"server_name", "workgroup"}
    THEN IF ~MatchesNetbiosName(name)
           THEN Invalid("is invalid. 1-15 chars, no leading/trailing hyphens.", itemType, name)
           ELSE Valid
  ELSE IF ~MatchesGenericName(name)
    THEN Invalid("contains invalid characters.", itemType, name)
    ELSE Valid

QuotaUnits == {"k", "m", "g", "t", "p", "e", "z"}

\* \d+(?:\.\d+)?
MatchesDecimal(s) ==
  LET parts == split(s, {"."})
  IN  /\ Len(parts) \in {1, 2}
      /\ \A i \in 1..Len(parts) : parts[i] # <<>> /\ AllIn(parts[i], Digit)

\* faulty variant: the quota pattern without the i flag
MatchesQuotaCaseSensitive(quota) ==
  \/ quota = <<"n", "o", "n", "e">>
  \/ MatchesDecimal(quota)
  \/ /\ Len(quota) >= 2
     /\ quota[Len(quota)] \in QuotaUnits
     /\ MatchesDecimal(SubSeq(quota, 1, Len(quota) - 1))

\* /^none$|^\d+(?:\.\d+)?[kmgtpez]?$/i
MatchesQuota(quota) ==
  LET q == toLowerCase(quota)
  IN  \/ q = <<"n", "o", "n", "e">>
      \/ MatchesDecimal(q)
      \/ /\ Len(q) >= 2
         /\ q[Len(q)] \in QuotaUnits
         /\ MatchesDecimal(SubSeq(q, 1, Len(q) - 1))

validateQuota(quota) ==
  IF quota = <<>> THEN Valid
  ELSE IF ~MatchesQuota(quota)
    THEN Invalid("Quota must be 'none' or numeric value with optional unit (e.g., 512M, 120G, 1.5T)",
                 "", <<>>)
    ELSE Valid

\* validatePassword(password) with confirm undefined
validatePassword(password) ==
  IF password = <<>> THEN Invalid("Password is required.", "", <<>>) ELSE Valid

\* validatePassword(password, confirm) with confirm a string
validatePasswordConfirm(password, confirm) ==
  IF password = <<>> THEN Invalid("Password is required.", "", <<>>)
  ELSE IF password # confirm THEN Invalid("Passwords do not match.", "", <<>>)
  ELSE Valid

\* /^[0-7]{3,4}$/
validatePermissions(perms) ==
  IF perms = <<>> THEN Valid
  ELSE IF ~(Len(perms) \in {3, 4} /\ AllIn(perms, Octal))
    THEN Invalid("Permissions must be in octal format (e.g., 755, 644).", "", <<>>)
    ELSE Valid

\* the for loop of validateUserList over the trimmed non-empty elements
RECURSIVE validateUserListFrom(_)
validateUserListFrom(userList) ==
  IF userList = <<>> THEN Valid
  ELSE LET user == Head(userList)
           isGroup == startsWith(user, <<"@">>)
           userName == IF isGroup THEN Tail(user) ELSE user
           validation == validateName(userName, IF isGroup THEN "group" ELSE "user")
       IN  IF ~validation.isValid
             THEN Invalid(IF isGroup THEN "Invalid group in list" ELSE "Invalid user in list",
                          validation.error[1].itemType, validation.error[1].name)
             ELSE validateUserListFrom(Tail(userList))

\* faulty variant: the list check without u.trim()
validateUserListUntrimmed(users) ==
  IF users = <<>> THEN Valid
  ELSE validateUserListFrom(filterNonEmpty(split(users, {","})))

validateUserList(users) ==
  IF users = <<>> THEN Valid
  ELSE LET parts == split(users, {","})
           userList == filterNonEmpty([i \in 1..Len(parts) |-> trim(parts[i])])
       IN  validateUserListFrom(userList)

\* /^[A-Za-z0-9][A-Za-z0-9_-]*(\/[A-Za-z0-9][A-Za-z0-9_-]*)*$/
validateDatasetPath(path) ==
  IF path = <<>> THEN Invalid("Dataset path is required.", "", <<>>)
  ELSE LET segs == split(path, {"/"})
           ok == \A i \in 1..Len(segs) :
                   /\ segs[i] # <<>>
                   /\ segs[i][1] \in Lower \cup Upper \cup Digit
                   /\ AllIn(Tail(segs[i]), Lower \cup Upper \cup Digit \cup {"_", "-"})
       IN  IF ~ok
             THEN Invalid("Dataset path must be segments of [A-Za-z0-9][A-Za-z0-9_-]* separated by '/'",
                          "", <<>>)
             ELSE Valid

\* the inline validator of InitialSetup's primaryPool
validateRequiredPool(value) ==
  IF value # <<>> THEN Valid ELSE Invalid("Primary pool is required", "", <<>>)

\* the inline validators () => ({ isValid: true })
validateAlways(value) == Valid

(***************************************************************************)
(* Words of the smb-zfs command lines built by the handlers                *)
(***************************************************************************)
L_smb_zfs == <<"s", "m", "b", "-", "z", "f", "s">>
L_get_state == <<"g", "e", "t", "-", "s", "t", "a", "t", "e">>
L___json == <<"-", "-", "j", "s", "o", "n">>
L_list == <<"l", "i", "s", "t">>
L_pools == <<"p", "o", "o", "l", "s">>
L_setup == <<"s", "e", "t", "u", "p">>
L___primary_pool == <<"-", "-", "p", "r", "i", "m", "a", "r", "y", "-", "p", "o", "o", "l">>
L___secondary_pools == <<"-", "-", "s", "e", "c", "o", "n", "d", "a", "r", "y", "-", "p", "o", "o", "l", "s">>
L___server_name == <<"-", "-", "s", "e", "r", "v", "e", "r", "-", "n", "a", "m", "e">>
L___workgroup == <<"-", "-", "w", "o", "r", "k", "g", "r", "o", "u", "p">>
L___macos == <<"-", "-", "m", "a", "c", "o", "s">>
L___default_home_quota == <<"-", "-", "d", "e", "f", "a", "u", "l", "t", "-", "h", "o", "m", "e", "-", "q", "u", "o", "t", "a">>
L_create == <<"c", "r", "e", "a", "t", "e">>
L_user == <<"u", "s", "e", "r">>
L___password == <<"-", "-", "p", "a", "s", "s", "w", "o", "r", "d">>
L___shell == <<"-", "-", "s", "h", "e", "l", "l">>
L___groups == <<"-", "-", "g", "r", "o", "u", "p", "s">>
L___no_home == <<"-", "-", "n", "o", "-", "h", "o", "m", "e">>
L_modify == <<"m", "o", "d", "i", "f", "y">>
L_home == <<"h", "o", "m", "e">>
L___quota == <<"-", "-", "q", "u", "o", "t", "a">>
L_none == <<"n", "o", "n", "e">>
L_delete == <<"d", "e", "l", "e", "t", "e">>
L___yes == <<"-", "-", "y", "e", "s">>
L___delete_data == <<"-", "-", "d", "e", "l", "e", "t", "e", "-", "d", "a", "t", "a">>
L_passwd == <<"p", "a", "s", "s", "w", "d">>
L_group == <<"g", "r", "o", "u", "p">>
L___description == <<"-", "-", "d", "e", "s", "c", "r", "i", "p", "t", "i", "o", "n">>
L___users == <<"-", "-", "u", "s", "e", "r", "s">>
L___add_users == <<"-", "-", "a", "d", "d", "-", "u", "s", "e", "r", "s">>
L___remove_users == <<"-", "-", "r", "e", "m", "o", "v", "e", "-", "u", "s", "e", "r", "s">>
L_share == <<"s", "h", "a", "r", "e">>
L___dataset == <<"-", "-", "d", "a", "t", "a", "s", "e", "t">>
L___pool == <<"-", "-", "p", "o", "o", "l">>
L___comment == <<"-", "-", "c", "o", "m", "m", "e", "n", "t">>
L___owner == <<"-", "-", "o", "w", "n", "e", "r">>
L___group == <<"-", "-", "g", "r", "o", "u", "p">>
L___perms == <<"-", "-", "p", "e", "r", "m", "s">>
L___valid_users == <<"-", "-", "v", "a", "l", "i", "d", "-", "u", "s", "e", "r", "s">>
L___readonly == <<"-", "-", "r", "e", "a", "d", "o", "n", "l", "y">>
L___no_browse == <<"-", "-", "n", "o", "-", "b", "r", "o", "w", "s", "e">>

(***************************************************************************)
(* Values of the environment: the host console and the smb-zfs tool        *)
(***************************************************************************)
S_tank == <<"t", "a", "n", "k">>
S_data == <<"d", "a", "t", "a">>
S_alice == <<"a", "l", "i", "c", "e">>
S_bob == <<"b", "o", "b">>
S_carol == <<"c", "a", "r", "o", "l">>
S_staff == <<"s", "t", "a", "f", "f">>
S_media == <<"m", "e", "d", "i", "a">>
S_docs == <<"d", "o", "c", "s">>
S_10G == <<"1", "0", "G">>
S_20G == <<"2", "0", "G">>
S_1T == <<"1", "T">>
S_localhost == <<"l", "o", "c", "a", "l", "h", "o", "s", "t">>
S_WORKGROUP == <<"W", "O", "R", "K", "G", "R", "O", "U", "P">>
S_smb_users == <<"s", "m", "b", "_", "u", "s", "e", "r", "s">>
S_root == <<"r", "o", "o", "t">>
S_775 == <<"7", "7", "5">>
S_NAS == <<"N", "A", "S">>
S_unknown == <<"u", "n", "k", "n", "o", "w", "n">>

\* cockpit.host and cockpit.user of the session
CockpitHost == S_localhost
CockpitUser == Some([name |-> S_carol])

\* needles and messages of the API wrapper
M_notInitialized == <<"n", "o", "t", " ", "i", "n", "i", "t", "i", "a", "l", "i", "z", "e", "d">>
M_errorPrefix == <<"e", "r", "r", "o", "r", ":">>
M_parseState == <<"F", "a", "i", "l", "e", "d", " ", "t", "o", " ", "p", "a", "r", "s", "e", " ", "s", "t", "a", "t", "e", " ", "J", "S", "O", "N">>
M_parsePools == <<"F", "a", "i", "l", "e", "d", " ", "t", "o", " ", "p", "a", "r", "s", "e", " ", "p", "o", "o", "l", "s", " ", "J", "S", "O", "N">>
M_changePassword == <<"F", "a", "i", "l", "e", "d", " ", "t", "o", " ", "c", "h", "a", "n", "g", "e", " ", "p", "a", "s", "s", "w", "o", "r", "d", ".">>

\* texts a child process can write to its standard output, and messages it can fail with
T_errNotInit == <<"E", "r", "r", "o", "r", ":", " ", "n", "o", "t", " ", "i", "n", "i", "t", "i", "a", "l", "i", "z", "e", "d">>
T_errPool == <<"E", "r", "r", "o", "r", ":", " ", "p", "o", "o", "l", " ", "m", "i", "s", "s", "i", "n", "g">>
T_garbage == <<"o", "o", "p", "s">>
T_json == <<"{", "}">>
T_jsonArr == <<"[", "]">>
E_notInit == <<"s", "m", "b", "-", "z", "f", "s", ":", " ", "s", "y", "s", "t", "e", "m", " ", "n", "o", "t", " ", "i", "n", "i", "t", "i", "a", "l", "i", "z", "e", "d">>
E_denied == <<"p", "e", "r", "m", "i", "s", "s", "i", "o", "n", " ", "d", "e", "n", "i", "e", "d">>
E_exit1 == <<"e", "x", "i", "t", "e", "d", " ", "w", "i", "t", "h", " ", "c", "o", "d", "e", " ", "1">>
T_errBusy == <<"E", "r", "r", "o", "r", ":", " ", "d", "a", "t", "a", "s", "e", "t", " ", "b", "u", "s", "y">>
T_ok == <<"d", "o", "n", "e">>

EmptyMap == [k \in {} |-> <<>>]

\* Object.keys / property lookup with the || default of the source
Field(data, key, default) == IF key \in DOMAIN data THEN data[key] ELSE default

(***************************************************************************)
(* Parsed get-state documents.  UserData and ShareData keep the fields     *)
(* the forms read: dataset.quota and smb_config.comment ("" when absent).  *)
(***************************************************************************)
UsersA == [u \in {S_alice, S_bob} |-> IF u = S_alice THEN [quota |-> S_10G] ELSE [quota |-> <<>>]]
UsersB == [u \in {S_alice} |-> [quota |-> S_20G]]
GroupsA == [g \in {S_staff} |-> [members |-> <<S_alice>>]]
SharesA == [s \in {S_media, S_docs} |->
              IF s = S_media THEN [quota |-> S_1T, comment |-> S_media]
                             ELSE [quota |-> <<>>, comment |-> <<>>]]
SharesB == [s \in {S_media} |-> [quota |-> <<>>, comment |-> S_docs]]

D_A == [initialized |-> TRUE, primary_pool |-> S_tank, secondary_pools |-> <<S_data>>,
        server_name |-> S_NAS, workgroup |-> S_WORKGROUP, macos_optimized |-> FALSE,
        default_home_quota |-> S_10G, users |-> UsersA, groups |-> GroupsA, shares |-> SharesA]
D_B == [initialized |-> TRUE, primary_pool |-> S_tank, users |-> UsersB, groups |-> GroupsA,
        shares |-> SharesB]
D_uninit == [initialized |-> FALSE]
D_empty == EmptyMap

(***************************************************************************)
(* A settled child process: rejected with a message, or exited with the    *)
(* text of its standard output.  json is what JSON.parse(text) returns,    *)
(* None when it throws; the text of a JSON document is abbreviated.        *)
(***************************************************************************)
Exited(text, json) == [rejected |-> FALSE, text |-> text, json |-> json, message |-> <<>>]
Rejected(message) == [rejected |-> TRUE, text |-> <<>>, json |-> None, message |-> message]

GetStateOutcomes ==
  { Exited(<<>>, None), Exited(T_json, Some(D_uninit)), Exited(T_json, Some(D_A)),
    Exited(T_json, Some(D_B)), Exited(T_garbage, None), Exited(T_errPool, None),
    Exited(T_errNotInit, None), Rejected(E_notInit), Rejected(E_denied) }

ListPoolsOutcomes ==
  { Exited(<<>>, None), Exited(T_jsonArr, Some(<<S_tank, S_data>>)), Exited(T_garbage, None),
    Rejected(E_denied) }

\* a command's JSON reply is an object with an optional error member
RunOutcomes ==
  { Exited(<<>>, None), Exited(T_json, Some([msg |-> T_ok])),
    Exited(T_json, Some([error |-> T_errBusy])), Exited(T_ok, None), Exited(T_errBusy, None),
    Rejected(E_exit1) }

PasswdOutcomes == { Exited(<<>>, None), Exited(T_ok, None), Rejected(E_exit1) }

(***************************************************************************)
(* Bounds of the exploration                                               *)
(***************************************************************************)
\* field events (change, blur, checkbox, select) handled since the subtree mounted
MaxEdits == 2
\* smb-zfs commands in flight at once
MaxInFlight == 2
\* get-state requests in flight at once
MaxPending == 2
\* modals opened since the subtree mounted
MaxOpens == 1
\* a modal is opened while fewer than this many child processes are in flight
MaxBusy == 1
\* modals opened since the subtree mounted, where re-opening is explored
MaxReopens == 2
\* field events handled since the subtree mounted, where re-opening is explored
MaxReopenEdits == 1
\* length of the share names typed, next to those of about the longest valid length
MaxNameLen == 3
\* length of the quotas typed
MaxQuotaLen == 4
\* longest short user list typed into a list field
MaxListLen == 4

VARIABLES
  state,        \* App: the displayed State, None for null
  loading,      \* App: loading flag
  error,        \* App: error string, None for null
  isRoot,       \* App: isRoot
  currentUser,  \* App: currentUser
  mounted,      \* App: whether the mount effect has run (listener registered)
  permission,   \* cockpit.permission().is_superuser: None for null, Some(TRUE/FALSE)
  subtree,      \* the component subtree App rendered below itself
  tabs,         \* UsersTab, GroupsTab, SharesTab, PasswordTab: open flags and selection
  dialogs,      \* state of InitialSetup and of every modal component
  requests,     \* get-state requests in flight, in issue order
  procs,        \* the other child processes in flight, a bag
  acts,         \* history: the field events handled and the modals opened since
                \* the subtree mounted
  answer,       \* history: the reply to the get-state request issued last
  event         \* history: the step taken last and the process it spawned

vars == <<state, loading, error, isRoot, currentUser, mounted, permission,
          subtree, tabs, dialogs, requests, procs, acts, answer, event>>

(***************************************************************************)
(* Faulty variants of definitions below.  Each property that is proved is  *)
(* also run with one definition replaced by its variant, and has to fail.  *)
(***************************************************************************)
\* getState without the empty-output case: JSON.parse("") throws
getStateParsingAlways(outcome) ==
  IF outcome.rejected THEN [ok |-> FALSE, data |-> EmptyMap, message |-> outcome.message]
  ELSE IF outcome.json # None THEN [ok |-> TRUE, data |-> outcome.json[1], message |-> <<>>]
    ELSE [ok |-> FALSE, data |-> EmptyMap, message |-> M_parseState]

\* refreshState that blanks the page data before the reply arrives
refreshStateClearing(st, rq) ==
  [state |-> None, loading |-> TRUE,
   requests |-> Append([i \in 1..Len(rq) |-> FALSE], TRUE)]

\* a "changed" listener that keeps the value read when App mounted
onChangedKeepingRoot(perm) == isRoot

\* the modify handlers passing the quota field as it is
quotaArgVerbatim(quota) == quota

\* isFormValid of ChangePasswordModal without the comparison of the two values
passwordFormValidWithoutMatch(d) ==
  /\ d.fields.password.validation.isValid /\ d.fields.confirm.validation.isValid
  /\ d.fields.password.value # <<>>

\* a promise chain of group deletion that closes the modal but never calls onRefresh
settledWithoutGroupRefresh(origin, r, d) ==
  IF origin = "DeleteModal" THEN [refresh |-> FALSE, close |-> r.ok, dialog |-> d]
  ELSE [refresh |-> r.ok, close |-> r.ok /\ origin \notin {"InitialSetup", "Unmounted"},
        dialog |-> IF origin = "Unmounted" THEN d
                   ELSE [d EXCEPT !.error = IF r.ok THEN @ ELSE Some(r.message),
                                  !.loading = FALSE]]

\* handleBlur that validates without marking the field as touched
handleBlurWithoutTouch(fld, result) ==
  [value |-> fld.value, validation |-> result, touched |-> fld.touched]

(***************************************************************************)
(* useValidation                                                           *)
(***************************************************************************)
\* useState(initialValue), useState({ isValid: true }), useState(false)
useValidation(initialValue) ==
  [value |-> initialValue, validation |-> Valid, touched |-> FALSE]

\* handleChange: setValue, setTouched(true), setValidation(validator(newValue))
handleChange(fld, newValue, result) ==
  [value |-> newValue, validation |-> result, touched |-> TRUE]

\* handleBlur: setTouched(true), setValidation(validator(value))
handleBlur(fld, result) ==
  [value |-> fld.value, validation |-> result, touched |-> TRUE]

\* the isValid and error members the hook returns
isValidOf(fld) == fld.validation.isValid
errorOf(fld) == IF fld.touched THEN fld.validation.error ELSE None

(***************************************************************************)
(* App: normalisation of the get-state reply and the view                  *)
(***************************************************************************)
normalized(data) ==
  [initialized |-> Field(data, "initialized", FALSE),
   primary_pool |-> Field(data, "primary_pool", <<>>),
   secondary_pools |-> Field(data, "secondary_pools", <<>>),
   server_name |-> Field(data, "server_name", <<>>),
   workgroup |-> Field(data, "workgroup", <<>>),
   macos_optimized |-> Field(data, "macos_optimized", FALSE),
   default_home_quota |-> Field(data, "default_home_quota", <<>>),
   users |-> Field(data, "users", EmptyMap),
   groups |-> Field(data, "groups", EmptyMap),
   shares |-> Field(data, "shares", EmptyMap)]

\* the state set when get-state fails with "not initialized"
Placeholder ==
  [initialized |-> FALSE, secondary_pools |-> <<>>, users |-> EmptyMap,
   groups |-> EmptyMap, shares |-> EmptyMap]

\* smbZfsApi.getState: what the promise settles with
getState(outcome) ==
  IF outcome.rejected THEN [ok |-> FALSE, data |-> EmptyMap, message |-> outcome.message]
  ELSE IF outcome.text = <<>> THEN [ok |-> TRUE, data |-> EmptyMap, message |-> <<>>]
  ELSE IF outcome.json # None THEN [ok |-> TRUE, data |-> outcome.json[1], message |-> <<>>]
  ELSE IF startsWith(toLowerCase(outcome.text), M_errorPrefix)
    THEN [ok |-> FALSE, data |-> EmptyMap, message |-> outcome.text]
    ELSE [ok |-> FALSE, data |-> EmptyMap, message |-> M_parseState]

\* a JavaScript string or null used as a condition
Truthy(opt) == opt # None /\ opt[1] # <<>>

\* which page App renders (lines 209-290)
ViewOf(ld, er, st) ==
  IF ld THEN "spinner"
  ELSE IF Truthy(er) THEN "error"
  ELSE IF st = None THEN "nodata"
  ELSE IF ~st[1].initialized THEN "setup"
  ELSE "tabs"

View == ViewOf(loading, error, state)

\* the tabs array of App
TabsOf(root) ==
  IF root THEN <<"overview", "users", "groups", "shares">> ELSE <<"overview", "password">>

\* the component subtree below App: it unmounts when this changes
SubtreeOf(ld, er, st, root) ==
  LET v == ViewOf(ld, er, st)
  IN  IF v = "tabs" THEN (IF root THEN "tabs-root" ELSE "tabs-user") ELSE v

Subtree == subtree

(***************************************************************************)
(* The dialogs: InitialSetup and the modal components                      *)
(***************************************************************************)
DialogNames ==
  {"InitialSetup", "CreateUserModal", "ModifyUserModal", "DeleteUserModal",
   "ChangePasswordModal", "CreateGroupModal", "ModifyGroupModal", "DeleteModal",
   "CreateShareModal", "ModifyShareModal", "DeleteShareModal"}

\* pools prop of SharesTab: [...secondary_pools, primary_pool].filter(Boolean)
PoolsOf(st) ==
  IF st = None \/ ~st[1].initialized THEN <<>>
  ELSE filterNonEmpty(st[1].secondary_pools \o <<st[1].primary_pool>>)

\* the useState / useValidation initial values of each component
InitialDialog(name, quota, comment, pool) ==
  CASE name = "InitialSetup" ->
         [fields |-> [primaryPool |-> useValidation(<<>>),
                      secondaryPools |-> useValidation(<<>>),
                      serverName |-> useValidation(CockpitHost),
                      workgroup |-> useValidation(S_WORKGROUP),
                      defaultHomeQuota |-> useValidation(<<>>)],
          flags |-> [macos |-> FALSE], pools |-> <<>>, loading |-> FALSE, error |-> None]
    [] name = "CreateUserModal" ->
         [fields |-> [userName |-> useValidation(<<>>), password |-> useValidation(<<>>),
                      groups |-> useValidation(<<>>)],
          flags |-> [shell |-> FALSE, noHome |-> FALSE], loading |-> FALSE, error |-> None]
    [] name = "ModifyUserModal" ->
         [fields |-> [quota |-> useValidation(quota)],
          flags |-> EmptyMap, loading |-> FALSE, error |-> None]
    [] name = "DeleteUserModal" ->
         [fields |-> EmptyMap, flags |-> [deleteData |-> FALSE], loading |-> FALSE, error |-> None]
    [] name = "ChangePasswordModal" ->
         [fields |-> [password |-> useValidation(<<>>), confirm |-> useValidation(<<>>)],
          flags |-> EmptyMap, loading |-> FALSE, error |-> None]
    [] name = "CreateGroupModal" ->
         [fields |-> [groupName |-> useValidation(<<>>), description |-> useValidation(<<>>),
                      users |-> useValidation(<<>>)],
          flags |-> EmptyMap, loading |-> FALSE, error |-> None]
    [] name = "ModifyGroupModal" ->
         [fields |-> [addUsers |-> useValidation(<<>>), removeUsers |-> useValidation(<<>>)],
          flags |-> EmptyMap, loading |-> FALSE, error |-> None]
    [] name = "DeleteModal" ->
         \* GroupsTab passes neither loading nor error (lines 1060-1066)
         [fields |-> EmptyMap, flags |-> EmptyMap, loading |-> FALSE, error |-> None]
    [] name = "CreateShareModal" ->
         [fields |-> [shareName |-> useValidation(<<>>), dataset |-> useValidation(<<>>),
                      comment |-> useValidation(<<>>), owner |-> useValidation(S_root),
                      group |-> useValidation(S_smb_users), permissions |-> useValidation(S_775),
                      validUsers |-> useValidation(<<>>), quota |-> useValidation(<<>>)],
          flags |-> [readonly |-> FALSE, noBrowse |-> FALSE], pool |-> pool,
          loading |-> FALSE, error |-> None]
    [] name = "ModifyShareModal" ->
         [fields |-> [comment |-> useValidation(comment), quota |-> useValidation(quota)],
          flags |-> EmptyMap, loading |-> FALSE, error |-> None]
    [] name = "DeleteShareModal" ->
         [fields |-> EmptyMap, flags |-> [deleteData |-> FALSE], loading |-> FALSE, error |-> None]

\* the components as the subtree sub mounts them; a component that is not
\* mounted is held at its initial values
FreshDialogs(sub, st) ==
  LET pools == IF sub = "tabs-root" THEN PoolsOf(st) ELSE <<>>
  IN  [n \in DialogNames |->
         InitialDialog(n, <<>>, <<>>, IF pools # <<>> THEN pools[1] ELSE <<>>)]

TabNames == {"UsersTab", "GroupsTab", "SharesTab", "PasswordTab"}
Kinds == {"Create", "Modify", "Delete", "Password"}

\* the modal each open flag of a tab shows
DialogOf(tab, kind) ==
  CASE tab = "UsersTab" /\ kind = "Create" -> "CreateUserModal"
    [] tab = "UsersTab" /\ kind = "Modify" -> "ModifyUserModal"
    [] tab = "UsersTab" /\ kind = "Delete" -> "DeleteUserModal"
    [] tab = "UsersTab" /\ kind = "Password" -> "ChangePasswordModal"
    [] tab = "GroupsTab" /\ kind = "Create" -> "CreateGroupModal"
    [] tab = "GroupsTab" /\ kind = "Modify" -> "ModifyGroupModal"
    [] tab = "GroupsTab" /\ kind = "Delete" -> "DeleteModal"
    [] tab = "SharesTab" /\ kind = "Create" -> "CreateShareModal"
    [] tab = "SharesTab" /\ kind = "Modify" -> "ModifyShareModal"
    [] tab = "SharesTab" /\ kind = "Delete" -> "DeleteShareModal"
    [] tab = "PasswordTab" /\ kind = "Password" -> "ChangePasswordModal"
    [] OTHER -> "none"

\* the open flags of the tab components, and those that show each modal
Modals == { tk \in TabNames \X Kinds : DialogOf(tk[1], tk[2]) # "none" }
KindsOfTab == [t \in TabNames |-> { k \in Kinds : <<t, k>> \in Modals }]
KindsOf(tab) == KindsOfTab[tab]

\* the useState(false) / useState(null) of the four tab components
FreshTabs ==
  [t \in TabNames |-> [open |-> [k \in KindsOf(t) |-> FALSE], selected |-> None]]

\* the tab components mounted below App
MountedTabs(sub) ==
  IF sub = "tabs-root" THEN {"UsersTab", "GroupsTab", "SharesTab"}
  ELSE IF sub = "tabs-user" THEN {"PasswordTab"}
  ELSE {}

ShownBy ==
  [n \in DialogNames |-> { tk \in Modals : DialogOf(tk[1], tk[2]) = n }]

\* isOpen of a modal, or InitialSetup being the page shown
IsOpen(name) ==
  IF name = "InitialSetup" THEN Subtree = "setup"
  ELSE \E tk \in ShownBy[name] :
         tk[1] \in MountedTabs(Subtree) /\ tabs[tk[1]].open[tk[2]]

\* a PatternFly Modal is open: its backdrop covers the page below
AnyModalOpen ==
  \E t \in MountedTabs(Subtree) : \E k \in KindsOf(t) : tabs[t].open[k]

\* the rows of the table of a tab
EntitiesOf(tab) ==
  IF state = None THEN {}
  ELSE IF tab = "UsersTab" THEN DOMAIN state[1].users
  ELSE IF tab = "GroupsTab" THEN DOMAIN state[1].groups
  ELSE IF tab = "SharesTab" THEN DOMAIN state[1].shares
  ELSE {}

\* the validator each useValidation call is given; d is the component's
\* state in the render the handler was created in
Validate(name, f, v, d) ==
  CASE name = "InitialSetup" /\ f = "primaryPool" -> validateRequiredPool(v)
    [] name = "InitialSetup" /\ f = "secondaryPools" -> validateAlways(v)
    [] name = "InitialSetup" /\ f = "serverName" -> validateName(v, "server_name")
    [] name = "InitialSetup" /\ f = "workgroup" -> validateName(v, "workgroup")
    [] name = "InitialSetup" /\ f = "defaultHomeQuota" -> validateQuota(v)
    [] name = "CreateUserModal" /\ f = "userName" -> validateName(v, "user")
    [] name = "CreateUserModal" /\ f = "password" -> validatePassword(v)
    [] name = "CreateUserModal" /\ f = "groups" -> validateUserList(v)
    [] name = "ModifyUserModal" /\ f = "quota" -> validateQuota(v)
    [] name = "ChangePasswordModal" /\ f = "password" -> validatePassword(v)
    [] name = "ChangePasswordModal" /\ f = "confirm" ->
         validatePasswordConfirm(v, d.fields.password.value)
    [] name = "CreateGroupModal" /\ f = "groupName" -> validateName(v, "group")
    [] name = "CreateGroupModal" /\ f = "description" -> validateAlways(v)
    [] name = "CreateGroupModal" /\ f = "users" -> validateUserList(v)
    [] name = "ModifyGroupModal" /\ f = "addUsers" -> validateUserList(v)
    [] name = "ModifyGroupModal" /\ f = "removeUsers" -> validateUserList(v)
    [] name = "CreateShareModal" /\ f = "shareName" -> validateName(v, "share")
    [] name = "CreateShareModal" /\ f = "dataset" -> validateDatasetPath(v)
    [] name = "CreateShareModal" /\ f = "comment" -> validateAlways(v)
    [] name = "CreateShareModal" /\ f = "owner" -> validateName(v, "owner")
    [] name = "CreateShareModal" /\ f = "group" -> validateName(v, "group")
    [] name = "CreateShareModal" /\ f = "permissions" -> validatePermissions(v)
    [] name = "CreateShareModal" /\ f = "validUsers" -> validateUserList(v)
    [] name = "CreateShareModal" /\ f = "quota" -> validateQuota(v)
    [] name = "ModifyShareModal" /\ f = "comment" -> validateAlways(v)
    [] name = "ModifyShareModal" /\ f = "quota" -> validateQuota(v)

\* the inputs that have no onBlur handler
NoBlur ==
  {<<"InitialSetup", "secondaryPools">>, <<"CreateGroupModal", "description">>,
   <<"CreateShareModal", "comment">>, <<"ModifyShareModal", "comment">>}

(***************************************************************************)
(* What the operator types                                                 *)
(***************************************************************************)
S_5G == <<"5", "G">>
S_5X == <<"5", "X">>
S_dave == <<"d", "a", "v", "e">>
S_Dave == <<"D", "a", "v", "e">>
S_pw == <<"p", "w">>
S_px == <<"p", "x">>
S_devs == <<"d", "e", "v", "s">>
S_at_staff == <<"@", "s", "t", "a", "f", "f">>
S_bad_list == <<"a", ",", "B">>
S_pics == <<"p", "i", "c", "s">>
S_888 == <<"8", "8", "8">>
S_hyphen == <<"-", "n">>

Typed(name, f) ==
  CASE name = "InitialSetup" /\ f = "primaryPool" -> {S_tank, <<>>}
    [] name = "InitialSetup" /\ f = "secondaryPools" -> {S_data}
    [] name = "InitialSetup" /\ f = "serverName" -> {S_hyphen}
    [] name = "InitialSetup" /\ f = "workgroup" -> {<<>>}
    [] name = "InitialSetup" /\ f = "defaultHomeQuota" -> {S_5G}
    [] name = "CreateUserModal" /\ f = "userName" -> {S_dave, S_Dave}
    [] name = "CreateUserModal" /\ f = "password" -> {S_pw}
    [] name = "CreateUserModal" /\ f = "groups" -> {S_staff}
    [] name = "ModifyUserModal" /\ f = "quota" -> {<<>>, S_5G, S_5X}
    [] name = "ChangePasswordModal" /\ f = "password" -> {S_pw, S_px}
    [] name = "ChangePasswordModal" /\ f = "confirm" -> {S_pw, S_px}
    [] name = "CreateGroupModal" /\ f = "groupName" -> {S_devs}
    [] name = "CreateGroupModal" /\ f = "description" -> {S_docs}
    [] name = "CreateGroupModal" /\ f = "users" -> {S_alice}
    [] name = "ModifyGroupModal" /\ f = "addUsers" -> {S_bob}
    [] name = "ModifyGroupModal" /\ f = "removeUsers" -> {S_bad_list}
    [] name = "CreateShareModal" /\ f = "shareName" -> {S_pics}
    [] name = "CreateShareModal" /\ f = "dataset" -> {S_pics}
    [] name = "CreateShareModal" /\ f = "comment" -> {S_docs}
    [] name = "CreateShareModal" /\ f = "owner" -> {<<>>}
    [] name = "CreateShareModal" /\ f = "group" -> {S_staff}
    [] name = "CreateShareModal" /\ f = "permissions" -> {S_888}
    [] name = "CreateShareModal" /\ f = "validUsers" -> {S_at_staff}
    [] name = "CreateShareModal" /\ f = "quota" -> {S_5G}
    [] name = "ModifyShareModal" /\ f = "comment" -> {<<>>, S_docs}
    [] name = "ModifyShareModal" /\ f = "quota" -> {<<>>, S_5G, S_5X}

(***************************************************************************)
(* Child processes                                                         *)
(***************************************************************************)
\* what cockpit.spawn is called with, and the text written to the standard input
Spawned(api, argv, superuser, stdin, origin) ==
  [api |-> api, argv |-> argv, superuser |-> superuser, stdin |-> stdin, origin |-> origin]

\* cockpit.spawn(["smb-zfs", "get-state", "--json"])
GetStateProc == Spawned("getState", <<L_smb_zfs, L_get_state, L___json>>, FALSE, None, "App")

\* cockpit.spawn(["smb-zfs", "list", "pools", "--json"])
ListPoolsProc ==
  Spawned("listPools", <<L_smb_zfs, L_list, L_pools, L___json>>, FALSE, None, "InitialSetup")

MutatingWords == {L_create, L_modify, L_delete, L_passwd}

\* smbZfsApi.run: the spawn
run(command, origin) ==
  Spawned("run", <<L_smb_zfs>> \o command \o <<L___json>>, command[1] \in MutatingWords,
          None, origin)

\* smbZfsApi.run: what the promise settles with
runResult(outcome) ==
  IF outcome.rejected THEN [ok |-> FALSE, message |-> outcome.message]
  ELSE IF outcome.text = <<>> THEN [ok |-> TRUE, message |-> <<>>]
  ELSE IF outcome.json # None /\ Field(outcome.json[1], "error", <<>>) = <<>>
    THEN [ok |-> TRUE, message |-> <<>>]
  \* the catch block: reached when JSON.parse throws and when the error member throws
  ELSE IF startsWith(toLowerCase(outcome.text), M_errorPrefix)
    THEN [ok |-> FALSE, message |-> outcome.text]
    ELSE [ok |-> TRUE, message |-> <<>>]

\* smbZfsApi.listPools followed by .then(setPools).catch(() => setPools([]))
listPools(outcome) ==
  IF outcome.rejected THEN <<>>
  ELSE IF outcome.text = <<>> THEN <<>>
  ELSE IF outcome.json # None THEN outcome.json[1]
  ELSE <<>>

\* a process in flight: the promise and the component whose callbacks wait on it
Waiting(api, origin) == [api |-> api, origin |-> origin]
One(p) == SetToBag({p})

Count(pr, apis) == BagCardinality([p \in { q \in BagToSet(pr) : q.api \in apis } |-> pr[p]])
InFlight(pr) == Count(pr, {"run", "passwd"})
Pending(rq) == Len(rq)

Remove(rq, i) == SubSeq(rq, 1, i - 1) \o SubSeq(rq, i + 1, Len(rq))

\* the callbacks of an unmounted component set its state to no effect; what
\* they call in App still runs
Orphan(p) == [p EXCEPT !.origin = "Unmounted"]

\* the processes when the subtree below App is replaced by sub: the commands
\* in flight are orphaned and the list-pools requests, whose callbacks only
\* set component state, are dropped; InitialSetup's mount effect spawns list pools
Remount(sub, pr) ==
  LET kept == [p \in { q \in BagToSet(pr) : q.api # "listPools" } |-> pr[p]]
      orphaned == BagOfAll(Orphan, kept)
  IN  IF sub = "setup" THEN orphaned (+) One(Waiting("listPools", "InitialSetup"))
      ELSE orphaned

\* the step taken last: its handler, the component, whether a settled promise
\* was fulfilled, the process the step spawned and the outcome it settled
Event(name, origin, ok, spawned, outcome) ==
  [name |-> name, origin |-> origin, ok |-> ok, spawned |-> spawned, outcome |-> outcome]

NoActs == [edits |-> 0, opens |-> 0]

\* React commits what a handler has set: the App state, and below it either
\* the same components with their new state or a freshly mounted subtree
Commit(st, ld, er, root, tb, dl, pr, ac, ev) ==
  LET sub == SubtreeOf(ld, er, st, root)
  IN  /\ state' = st /\ loading' = ld /\ error' = er /\ isRoot' = root
      /\ subtree' = sub
      /\ IF sub = Subtree
           THEN tabs' = tb /\ dialogs' = dl /\ procs' = pr /\ acts' = ac /\ event' = ev
           ELSE /\ tabs' = FreshTabs
                /\ dialogs' = FreshDialogs(sub, st)
                /\ procs' = Remount(sub, pr)
                /\ acts' = NoActs
                /\ event' = IF sub = "setup" THEN [ev EXCEPT !.spawned = Some(ListPoolsProc)]
                            ELSE ev

\* refreshState up to the spawn: setLoading(true), smbZfsApi.getState(); a
\* request in flight is TRUE while it is the one issued last
refreshState(st, rq) ==
  [state |-> st, loading |-> TRUE,
   requests |-> Append([i \in 1..Len(rq) |-> FALSE], TRUE)]

(***************************************************************************)
(* App                                                                     *)
(***************************************************************************)
Init ==
  /\ state = None /\ loading = TRUE /\ error = None /\ isRoot = FALSE
  /\ currentUser = <<>> /\ mounted = FALSE
  /\ permission \in {None, Some(TRUE), Some(FALSE)}
  /\ subtree = SubtreeOf(TRUE, None, None, FALSE)
  /\ tabs = FreshTabs
  /\ dialogs = FreshDialogs("spinner", None)
  /\ requests = <<>> /\ procs = EmptyBag /\ acts = NoActs
  /\ answer = None
  /\ event = Event("init", "App", TRUE, None, None)

\* permission.is_superuser || false
IsSuperuser(perm) == perm # None /\ perm[1]

\* the useEffect of App: register the listener, setIsRoot, setCurrentUser, refreshState
Mount ==
  /\ ~mounted
  /\ mounted' = TRUE
  /\ currentUser' = IF CockpitUser # None /\ CockpitUser[1].name # <<>>
                      THEN CockpitUser[1].name ELSE S_unknown
  /\ LET r == refreshState(state, requests)
     IN  /\ Commit(r.state, r.loading, error, IsSuperuser(permission), tabs, dialogs,
                   procs, acts, Event("mount", "App", TRUE, Some(GetStateProc), None))
         /\ requests' = r.requests
  /\ answer' = None
  /\ UNCHANGED permission

\* the "changed" event of the permission object and the onChanged listener
onChanged(perm) == IsSuperuser(perm)

PermissionChanged(perm) ==
  /\ perm # permission
  /\ permission' = perm
  /\ Commit(state, loading, error, IF mounted THEN onChanged(perm) ELSE isRoot,
            tabs, dialogs, procs, acts, Event("permissionChanged", "App", TRUE, None, None))
  /\ UNCHANGED <<currentUser, mounted, requests, answer>>

\* the then / catch / finally of refreshState on a settled get-state
refreshSettled(outcome) ==
  LET r == getState(outcome)
  IN  IF r.ok THEN [state |-> Some(normalized(r.data)), error |-> None]
      ELSE IF includes(r.message, M_notInitialized)
        THEN [state |-> Some(Placeholder), error |-> None]
        \* err?.message || String(err): the messages are not empty
        ELSE [state |-> state, error |-> Some(r.message)]

\* answer: the state the request issued last was answered with, None while it
\* is in flight and once a request has failed
GetStateSettles(i, outcome) ==
  /\ i \in 1..Len(requests)
  /\ LET s == refreshSettled(outcome)
         ok == getState(outcome).ok
     IN  /\ Commit(s.state, FALSE, s.error, isRoot, tabs, dialogs, procs, acts,
                   Event("getStateSettled", "App", ok, None, Some(outcome)))
         /\ answer' = IF ~ok THEN None
                      ELSE IF requests[i] THEN s.state
                      ELSE answer
  /\ requests' = Remove(requests, i)
  /\ UNCHANGED <<currentUser, mounted, permission>>

\* the Retry button of the error page: refreshState
Retry ==
  /\ View = "error"
  /\ Pending(requests) < MaxPending
  /\ LET r == refreshState(state, requests)
     IN  /\ Commit(r.state, r.loading, error, isRoot, tabs, dialogs, procs, acts,
                   Event("retry", "App", TRUE, Some(GetStateProc), None))
         /\ requests' = r.requests
  /\ answer' = None
  /\ UNCHANGED <<currentUser, mounted, permission>>

\* the close button of the error alert: setError(null)
CloseAlert ==
  /\ View = "error"
  /\ Commit(state, loading, None, isRoot, tabs, dialogs, procs, acts,
            Event("closeAlert", "App", TRUE, None, None))
  /\ UNCHANGED <<currentUser, mounted, permission, requests, answer>>

\* InitialSetup: the list-pools request of the mount effect settles
ListPoolsSettles(outcome) ==
  LET p == Waiting("listPools", "InitialSetup")
  IN  /\ BagIn(p, procs)
      /\ Commit(state, loading, error, isRoot, tabs,
                [dialogs EXCEPT !["InitialSetup"].pools = listPools(outcome)],
                procs (-) One(p), acts,
                Event("listPoolsSettled", "InitialSetup", ~outcome.rejected, None, Some(outcome)))
      /\ UNCHANGED <<currentUser, mounted, permission, requests, answer>>

(***************************************************************************)
(* Tabs: opening and closing the modals                                    *)
(***************************************************************************)
\* the child processes in flight
Busy == BagCardinality(procs) + Len(requests)

Edited == [acts EXCEPT !.edits = @ + 1]
Opened == [acts EXCEPT !.opens = @ + 1]

\* an event handler of a mounted component that spawns nothing
Handled(name, tb, dl, ac) ==
  /\ Commit(state, loading, error, isRoot, tb, dl, procs, ac, Event("input", name, TRUE, None, None))
  /\ UNCHANGED <<currentUser, mounted, permission, requests, answer>>

\* the Create User / Create Group / Create Share / Change Password buttons
OpenModal(tab) ==
  LET kind == IF tab = "PasswordTab" THEN "Password" ELSE "Create"
  IN  /\ tab \in MountedTabs(Subtree)
      /\ ~AnyModalOpen
      /\ Handled(DialogOf(tab, kind), [tabs EXCEPT ![tab].open[kind] = TRUE], dialogs, Opened)

\* the components UsersTab / SharesTab mount once an entity is selected
MountSelected(tab, entity, dl) ==
  IF tabs[tab].selected # None THEN dl
  ELSE IF tab = "UsersTab"
    THEN [dl EXCEPT !["ModifyUserModal"] =
            InitialDialog("ModifyUserModal", state[1].users[entity].quota, <<>>, <<>>)]
  ELSE IF tab = "SharesTab"
    THEN [dl EXCEPT !["ModifyShareModal"] =
            InitialDialog("ModifyShareModal", state[1].shares[entity].quota,
                          state[1].shares[entity].comment, <<>>)]
  ELSE dl

\* handleAction of UsersTab, GroupsTab and SharesTab
handleAction(tab, action, entity) ==
  /\ tab \in MountedTabs(Subtree) \ {"PasswordTab"}
  /\ ~AnyModalOpen
  /\ action \in KindsOf(tab) \ {"Create"}
  /\ entity \in EntitiesOf(tab)
  /\ Handled(DialogOf(tab, action),
             [tabs EXCEPT ![tab].selected = Some(entity), ![tab].open[action] = TRUE],
             MountSelected(tab, entity, dialogs), Opened)

\* onClose of a modal: the Cancel button or the close icon
CloseModal(tab, kind) ==
  /\ tab \in MountedTabs(Subtree)
  /\ kind \in KindsOf(tab)
  /\ tabs[tab].open[kind]
  /\ Handled(DialogOf(tab, kind), [tabs EXCEPT ![tab].open[kind] = FALSE], dialogs, acts)

(***************************************************************************)
(* Form fields                                                             *)
(***************************************************************************)
Range(s) == { s[i] : i \in 1..Len(s) }

\* what an input can be set to: typed text, or an option of the pool select
InputsOf(name, f) ==
  IF name = "InitialSetup" /\ f = "primaryPool" /\ dialogs[name].pools # <<>>
    THEN {<<>>} \cup Range(dialogs[name].pools)
    ELSE Typed(name, f)

\* onChange of an input bound to a useValidation field: field.handleChange(value)
FieldChange(name, f, v) ==
  /\ IsOpen(name)
  /\ f \in DOMAIN dialogs[name].fields
  /\ <<name, f>> # <<"ChangePasswordModal", "password">>
  /\ v # dialogs[name].fields[f].value
  /\ Handled(name, tabs,
             [dialogs EXCEPT ![name].fields[f] =
                handleChange(@, v, Validate(name, f, v, dialogs[name]))],
             Edited)

\* onChange of the New Password input of ChangePasswordModal (lines 978-984)
PasswordChange(v) ==
  LET name == "ChangePasswordModal"
      d == dialogs[name]
      confirm == d.fields.confirm
  IN  /\ IsOpen(name)
      /\ v # d.fields.password.value
      /\ Handled(name, tabs,
                 [dialogs EXCEPT
                    ![name].fields.password =
                       handleChange(@, v, Validate(name, "password", v, d)),
                    ![name].fields.confirm =
                       IF confirm.touched
                         THEN handleChange(@, confirm.value,
                                           Validate(name, "confirm", confirm.value, d))
                         ELSE @],
                 Edited)

\* onBlur of an input: field.handleBlur()
FieldBlur(name, f) ==
  /\ IsOpen(name)
  /\ f \in DOMAIN dialogs[name].fields
  /\ <<name, f>> \notin NoBlur
  /\ Handled(name, tabs,
             [dialogs EXCEPT ![name].fields[f] =
                handleBlur(@, Validate(name, f, @.value, dialogs[name]))],
             Edited)

\* onChange of a Checkbox: setMacos, setShell, setNoHome, setDeleteData, setReadonly, setNoBrowse
Toggle(name, flag) ==
  /\ IsOpen(name)
  /\ flag \in DOMAIN dialogs[name].flags
  /\ Handled(name, tabs, [dialogs EXCEPT ![name].flags[flag] = ~@], Edited)

\* onChange of the ZFS Pool select of CreateShareModal: setPool
SetPool(v) ==
  /\ IsOpen("CreateShareModal")
  /\ v # dialogs["CreateShareModal"].pool
  /\ Handled("CreateShareModal", tabs, [dialogs EXCEPT !["CreateShareModal"].pool = v],
             Edited)

(***************************************************************************)
(* Submitting                                                              *)
(***************************************************************************)
Val(d, f) == d.fields[f].value
Ok(d, f) == isValidOf(d.fields[f])
Opt(cond, words) == IF cond THEN words ELSE <<>>

\* the field.handleBlur() calls at the head of a submit handler
BlurAll(name, d, fs) ==
  [d EXCEPT !.fields =
     [f \in DOMAIN d.fields |->
        IF f \in fs THEN handleBlur(d.fields[f], Validate(name, f, d.fields[f].value, d))
        ELSE d.fields[f]]]

\* isFormValid of ChangePasswordModal
passwordFormValid(d) ==
  /\ Ok(d, "password") /\ Ok(d, "confirm") /\ Val(d, "password") # <<>>
  /\ Val(d, "password") = Val(d, "confirm")

\* isFormValid of each component (for ModifyUserModal: quota.isValid)
isFormValid(name, d) ==
  CASE name = "InitialSetup" ->
         /\ Ok(d, "primaryPool") /\ Ok(d, "serverName") /\ Ok(d, "workgroup")
         /\ Ok(d, "defaultHomeQuota") /\ Val(d, "primaryPool") # <<>>
    [] name = "CreateUserModal" ->
         /\ Ok(d, "userName") /\ Ok(d, "password") /\ Ok(d, "groups")
         /\ Val(d, "userName") # <<>>
    [] name = "ModifyUserModal" -> Ok(d, "quota")
    [] name = "ChangePasswordModal" -> passwordFormValid(d)
    [] name = "CreateGroupModal" ->
         /\ Ok(d, "groupName") /\ Ok(d, "description") /\ Ok(d, "users")
         /\ Val(d, "groupName") # <<>>
    [] name = "ModifyGroupModal" -> Ok(d, "addUsers") /\ Ok(d, "removeUsers")
    [] name = "CreateShareModal" ->
         /\ Ok(d, "shareName") /\ Ok(d, "dataset") /\ Ok(d, "comment") /\ Ok(d, "owner")
         /\ Ok(d, "group") /\ Ok(d, "permissions") /\ Ok(d, "validUsers") /\ Ok(d, "quota")
         /\ Val(d, "shareName") # <<>> /\ Val(d, "dataset") # <<>>
    [] name = "ModifyShareModal" -> Ok(d, "comment") /\ Ok(d, "quota")
    [] OTHER -> TRUE

\* the fields a submit handler blurs
BlurredOnSubmit(name) ==
  CASE name = "InitialSetup" -> {"primaryPool", "serverName", "workgroup", "defaultHomeQuota"}
    [] name = "CreateUserModal" -> {"userName", "password", "groups"}
    [] name = "ModifyUserModal" -> {"quota"}
    [] name = "ChangePasswordModal" -> {"password", "confirm"}
    [] name = "CreateGroupModal" -> {"groupName", "users"}
    [] name = "ModifyGroupModal" -> {"addUsers", "removeUsers"}
    [] name = "CreateShareModal" ->
         {"shareName", "dataset", "owner", "group", "permissions", "validUsers", "quota"}
    [] name = "ModifyShareModal" -> {"quota"}
    [] OTHER -> {}

\* isDisabled of the submit button; DeleteModal is given no loading prop
ButtonEnabled(name, d) ==
  IF name = "DeleteModal" THEN TRUE
  ELSE IF name \in {"DeleteUserModal", "DeleteShareModal"} THEN ~d.loading
  ELSE ~d.loading /\ isFormValid(name, d)

\* the entity a modal of a tab is shown for
Selected(tab) == tabs[tab].selected[1]

\* quota.value || 'none' of the two modify handlers
quotaArg(quota) == IF quota # <<>> THEN quota ELSE L_none

\* the command each handler builds
CommandOf(name, d) ==
  CASE name = "InitialSetup" ->
         <<L_setup, L___primary_pool, Val(d, "primaryPool")>>
         \o Opt(Val(d, "secondaryPools") # <<>>,
                <<L___secondary_pools>> \o split(Val(d, "secondaryPools"), {" "}))
         \o Opt(Val(d, "serverName") # <<>>, <<L___server_name, Val(d, "serverName")>>)
         \o Opt(Val(d, "workgroup") # <<>>, <<L___workgroup, Val(d, "workgroup")>>)
         \o Opt(d.flags.macos, <<L___macos>>)
         \o Opt(Val(d, "defaultHomeQuota") # <<>>,
                <<L___default_home_quota, Val(d, "defaultHomeQuota")>>)
    [] name = "CreateUserModal" ->
         <<L_create, L_user, Val(d, "userName")>>
         \o Opt(Val(d, "password") # <<>>, <<L___password, Val(d, "password")>>)
         \o Opt(d.flags.shell, <<L___shell>>)
         \o Opt(Val(d, "groups") # <<>>, <<L___groups, Val(d, "groups")>>)
         \o Opt(d.flags.noHome, <<L___no_home>>)
    [] name = "ModifyUserModal" ->
         <<L_modify, L_home, Selected("UsersTab"), L___quota,
           quotaArg(Val(d, "quota"))>>
    [] name = "DeleteUserModal" ->
         <<L_delete, L_user, Selected("UsersTab"), L___yes>>
         \o Opt(d.flags.deleteData, <<L___delete_data>>)
    [] name = "CreateGroupModal" ->
         <<L_create, L_group, Val(d, "groupName")>>
         \o Opt(Val(d, "description") # <<>>, <<L___description, Val(d, "description")>>)
         \o Opt(Val(d, "users") # <<>>, <<L___users, Val(d, "users")>>)
    [] name = "ModifyGroupModal" ->
         <<L_modify, L_group, Selected("GroupsTab")>>
         \o Opt(Val(d, "addUsers") # <<>>, <<L___add_users, Val(d, "addUsers")>>)
         \o Opt(Val(d, "removeUsers") # <<>>, <<L___remove_users, Val(d, "removeUsers")>>)
    [] name = "DeleteModal" -> <<L_delete, L_group, Selected("GroupsTab")>>
    [] name = "CreateShareModal" ->
         <<L_create, L_share, Val(d, "shareName"), L___dataset, Val(d, "dataset")>>
         \o Opt(d.pool # <<>>, <<L___pool, d.pool>>)
         \o Opt(Val(d, "comment") # <<>>, <<L___comment, Val(d, "comment")>>)
         \o Opt(Val(d, "owner") # <<>>, <<L___owner, Val(d, "owner")>>)
         \o Opt(Val(d, "group") # <<>>, <<L___group, Val(d, "group")>>)
         \o Opt(Val(d, "permissions") # <<>>, <<L___perms, Val(d, "permissions")>>)
         \o Opt(Val(d, "validUsers") # <<>>, <<L___valid_users, Val(d, "validUsers")>>)
         \o Opt(d.flags.readonly, <<L___readonly>>)
         \o Opt(d.flags.noBrowse, <<L___no_browse>>)
         \o Opt(Val(d, "quota") # <<>>, <<L___quota, Val(d, "quota")>>)
    [] name = "ModifyShareModal" ->
         <<L_modify, L_share, Selected("SharesTab"), L___comment, Val(d, "comment"), L___quota,
           quotaArg(Val(d, "quota"))>>
    [] name = "DeleteShareModal" ->
         <<L_delete, L_share, Selected("SharesTab"), L___yes>>
         \o Opt(d.flags.deleteData, <<L___delete_data>>)

\* a submit handler from its blurs to the spawn
Save(name, proc) ==
  LET d == dialogs[name]
      blurred == BlurAll(name, d, BlurredOnSubmit(name))
      valid == isFormValid(name, d)
  IN  /\ IsOpen(name)
      /\ ButtonEnabled(name, d)
      /\ InFlight(procs) < MaxInFlight
      /\ IF ~valid
           THEN Commit(state, loading, error, isRoot, tabs,
                       [dialogs EXCEPT ![name] = blurred], procs, acts,
                       Event("submit", name, FALSE, None, None))
           ELSE Commit(state, loading, error, isRoot, tabs,
                       [dialogs EXCEPT ![name] = [blurred EXCEPT !.loading = TRUE, !.error = None]],
                       procs (+) One(Waiting(proc.api, name)), acts,
                       Event("submit", name, TRUE, Some(proc), None))
      /\ UNCHANGED <<currentUser, mounted, permission, requests, answer>>

SaveRun(name) == Save(name, run(CommandOf(name, dialogs[name]), name))

InitialSetup_handleSubmit == SaveRun("InitialSetup")
CreateUserModal_handleSave == SaveRun("CreateUserModal")
ModifyUserModal_handleSave == SaveRun("ModifyUserModal")
DeleteUserModal_handleConfirm == SaveRun("DeleteUserModal")
CreateGroupModal_handleSave == SaveRun("CreateGroupModal")
ModifyGroupModal_handleSave == SaveRun("ModifyGroupModal")
CreateShareModal_handleSave == SaveRun("CreateShareModal")
ModifyShareModal_handleSave == SaveRun("ModifyShareModal")
DeleteShareModal_handleConfirm == SaveRun("DeleteShareModal")

NL == "\n"

\* the user prop of ChangePasswordModal: selectedUser in UsersTab, currentUser in PasswordTab
PasswordUser == IF Subtree = "tabs-root" THEN Selected("UsersTab") ELSE currentUser

\* ChangePasswordModal.handleSave: cockpit.spawn of passwd and proc.input
ChangePasswordModal_handleSave ==
  LET password == Val(dialogs["ChangePasswordModal"], "password")
  IN  Save("ChangePasswordModal",
           Spawned("passwd", <<L_smb_zfs, L_passwd, PasswordUser, L___json>>, TRUE,
                   Some(password \o <<NL>> \o password \o <<NL>>), "ChangePasswordModal"))

\* onConfirm of the DeleteModal of GroupsTab: no loading flag and no error state
GroupsTab_onConfirm ==
  LET proc == run(CommandOf("DeleteModal", dialogs["DeleteModal"]), "DeleteModal")
  IN  /\ IsOpen("DeleteModal")
      /\ ButtonEnabled("DeleteModal", dialogs["DeleteModal"])
      /\ InFlight(procs) < MaxInFlight
      /\ Commit(state, loading, error, isRoot, tabs, dialogs,
                procs (+) One(Waiting(proc.api, "DeleteModal")), acts,
                Event("submit", "DeleteModal", TRUE, Some(proc), None))
      /\ UNCHANGED <<currentUser, mounted, permission, requests, answer>>

(***************************************************************************)
(* Settlement of a command                                                 *)
(***************************************************************************)
\* setXModalOpen(false) of the tab that shows the modal
CloseOf(tb, name) ==
  [t \in TabNames |->
     [tb[t] EXCEPT !.open =
        [k \in DOMAIN tb[t].open |->
           IF t \in MountedTabs(Subtree) /\ DialogOf(t, k) = name THEN FALSE
           ELSE tb[t].open[k]]]]

\* what the then / catch / finally chain of a component does with a settled
\* command: refresh says whether onSave / onRefresh / onSetupComplete is
\* called, the rest is the component's own state (set only while mounted)
settled(origin, r, d) ==
  IF origin = "Unmounted"
    THEN \* the setters of an unmounted component do nothing
         [refresh |-> r.ok, close |-> FALSE, dialog |-> d]
  ELSE IF origin = "DeleteModal"
    THEN \* .then(onRefresh).then(() => setDeleteModalOpen(false)), no catch
         [refresh |-> r.ok, close |-> r.ok, dialog |-> d]
  ELSE IF origin = "InitialSetup"
    THEN [refresh |-> r.ok, close |-> FALSE,
          dialog |-> [d EXCEPT !.error = IF r.ok THEN @ ELSE Some(r.message),
                               !.loading = FALSE]]
  ELSE \* .then(() => { onSave(); onClose(); }).catch(setError).finally(setLoading(false))
       [refresh |-> r.ok, close |-> r.ok,
        dialog |-> [d EXCEPT !.error = IF r.ok THEN @ ELSE Some(r.message),
                             !.loading = FALSE]]

\* the component a process reports to, the unmounted ones included
Origins == DialogNames \cup {"Unmounted"}

Settle(p, r, outcome) ==
  LET live == p.origin # "Unmounted"
      s == settled(p.origin, r, IF live THEN dialogs[p.origin] ELSE EmptyMap)
      a == IF s.refresh THEN refreshState(state, requests)
           ELSE [state |-> state, loading |-> loading, requests |-> requests]
  IN  /\ BagIn(p, procs)
      /\ s.refresh => Pending(requests) < MaxPending
      /\ Commit(a.state, a.loading, error, isRoot,
                IF live /\ s.close THEN CloseOf(tabs, p.origin) ELSE tabs,
                IF live THEN [dialogs EXCEPT ![p.origin] = s.dialog] ELSE dialogs,
                procs (-) One(p), acts,
                Event("settled", p.origin, r.ok,
                      IF s.refresh THEN Some(GetStateProc) ELSE None, Some(outcome)))
      /\ requests' = a.requests
      /\ answer' = IF s.refresh THEN None ELSE answer
      /\ UNCHANGED <<currentUser, mounted, permission>>

\* a command spawned through smbZfsApi.run settles
RunSettles(origin, outcome) ==
  Settle(Waiting("run", origin), runResult(outcome), outcome)

\* proc.stream(...) of passwd: resolved on exit, rejected with err.message or the fallback
passwdResult(outcome) ==
  IF outcome.rejected
    THEN [ok |-> FALSE,
          message |-> IF outcome.message # <<>> THEN outcome.message ELSE M_changePassword]
    ELSE [ok |-> TRUE, message |-> <<>>]

PasswdSettles(origin, outcome) ==
  Settle(Waiting("passwd", origin), passwdResult(outcome), outcome)

(***************************************************************************)
(* Specification                                                           *)
(***************************************************************************)
OpenDialogs == { n \in DialogNames : IsOpen(n) }

\* the exploration opens a modal, and handles a field event, within the bounds
MayOpen == acts.opens < MaxOpens /\ Busy < MaxBusy
MayEdit == acts.edits < MaxEdits

Next ==
  \/ Mount
  \/ \E perm \in {Some(TRUE), Some(FALSE)} : PermissionChanged(perm)
  \/ \E i \in 1..Len(requests) : \E o \in GetStateOutcomes : GetStateSettles(i, o)
  \/ Retry
  \/ CloseAlert
  \/ \E o \in ListPoolsOutcomes : ListPoolsSettles(o)
  \/ MayOpen /\ \E t \in TabNames : OpenModal(t)
  \/ MayOpen /\ \E tk \in Modals : \E e \in EntitiesOf(tk[1]) : handleAction(tk[1], tk[2], e)
  \/ \E tk \in Modals : CloseModal(tk[1], tk[2])
  \/ MayEdit /\ \E n \in OpenDialogs : \E f \in DOMAIN dialogs[n].fields :
       \E v \in InputsOf(n, f) : FieldChange(n, f, v)
  \/ MayEdit /\ \E v \in Typed("ChangePasswordModal", "password") : PasswordChange(v)
  \/ MayEdit /\ \E n \in OpenDialogs : \E f \in DOMAIN dialogs[n].fields : FieldBlur(n, f)
  \/ MayEdit /\ \E n \in OpenDialogs : \E g \in DOMAIN dialogs[n].flags : Toggle(n, g)
  \/ MayEdit /\ \E v \in Range(PoolsOf(state)) : SetPool(v)
  \/ InitialSetup_handleSubmit
  \/ CreateUserModal_handleSave
  \/ ModifyUserModal_handleSave
  \/ DeleteUserModal_handleConfirm
  \/ ChangePasswordModal_handleSave
  \/ CreateGroupModal_handleSave
  \/ ModifyGroupModal_handleSave
  \/ GroupsTab_onConfirm
  \/ CreateShareModal_handleSave
  \/ ModifyShareModal_handleSave
  \/ DeleteShareModal_handleConfirm
  \/ \E p \in BagToSet(procs) : \E o \in RunOutcomes : RunSettles(p.origin, o)
  \/ \E p \in BagToSet(procs) : \E o \in PasswdOutcomes : PasswdSettles(p.origin, o)

Spec == Init /\ [][Next]_vars

(***************************************************************************)
(* Re-opening: the Modify and Delete dialogs of the Users and Shares tabs  *)
(* opened, cancelled and opened again, possibly for another entity.        *)
(***************************************************************************)
MayReopen == acts.opens < MaxReopens /\ Busy < MaxBusy

NextReopen ==
  \/ Mount
  \/ \E i \in 1..Len(requests) : \E o \in GetStateOutcomes : GetStateSettles(i, o)
  \/ MayReopen /\ \E tab \in {"UsersTab", "SharesTab"} : \E action \in {"Modify", "Delete"} :
       \E e \in EntitiesOf(tab) : handleAction(tab, action, e)
  \/ \E tk \in Modals : CloseModal(tk[1], tk[2])
  \/ acts.edits < MaxReopenEdits /\ \E n \in {"DeleteUserModal", "DeleteShareModal"} :
       Toggle(n, "deleteData")
  \/ ModifyUserModal_handleSave
  \/ DeleteUserModal_handleConfirm
  \/ ModifyShareModal_handleSave
  \/ DeleteShareModal_handleConfirm
  \/ \E p \in BagToSet(procs) : \E o \in RunOutcomes : RunSettles(p.origin, o)

SpecReopen == Init /\ [][NextReopen]_vars

(***************************************************************************)
(* Validators: the Share Name field of CreateShareModal and the quota      *)
(* field of ModifyUserModal typed into once, with every short string over  *)
(* a small alphabet and with names of about the longest valid length.      *)
(***************************************************************************)
\* the strings over alphabet of length at most n
Strings(alphabet, n) == UNION { [1..k -> alphabet] : k \in 0..n }

Repeat(c, n) == [i \in 1..n |-> c]

\* the {0,79} of the share-name pattern
ShareNameTail == 79

ShareNameAlphabet == {"a", "Z", "1", ".", "_", "-", ":", " "}

ShareNames ==
  Strings(ShareNameAlphabet, MaxNameLen)
  \cup { Repeat("a", ShareNameTail) \o w : w \in Strings(ShareNameAlphabet, 2) }

QuotaAlphabet == {"1", ".", "k", "G", "n", "o", "e", "N", "x"}

Quotas == Strings(QuotaAlphabet, MaxQuotaLen)

\* the first event of a field: it has been neither changed nor blurred
Pristine(name, f) == ~dialogs[name].fields[f].touched

NextShareName ==
  \/ Mount
  \/ \E i \in 1..Len(requests) : \E o \in GetStateOutcomes : GetStateSettles(i, o)
  \/ MayOpen /\ OpenModal("SharesTab")
  \/ Pristine("CreateShareModal", "shareName") /\ \E v \in ShareNames :
       FieldChange("CreateShareModal", "shareName", v)
  \/ Pristine("CreateShareModal", "shareName") /\ FieldBlur("CreateShareModal", "shareName")

SpecShareName == Init /\ [][NextShareName]_vars

NextQuota ==
  \/ Mount
  \/ \E i \in 1..Len(requests) : \E o \in GetStateOutcomes : GetStateSettles(i, o)
  \/ MayOpen /\ \E e \in EntitiesOf("UsersTab") : handleAction("UsersTab", "Modify", e)
  \/ Pristine("ModifyUserModal", "quota") /\ \E v \in Quotas :
       FieldChange("ModifyUserModal", "quota", v)
  \/ Pristine("ModifyUserModal", "quota") /\ FieldBlur("ModifyUserModal", "quota")

SpecQuota == Init /\ [][NextQuota]_vars


\* user lists typed into Groups: every short list, and single elements around
\* the 32-character limit of an account name, with and without "@"
AccountNameTail == 31
UserListAlphabet == {"a", "_", "1", "-", "A", "@", ",", " "}
UserLists ==
  Strings(UserListAlphabet, MaxListLen)
  \cup { p \o Repeat("a", AccountNameTail) \o w :
           p \in {<<>>, <<"@">>, <<"a", ",">>}, w \in Strings(UserListAlphabet, 2) }

NextUserList ==
  \/ Mount
  \/ \E i \in 1..Len(requests) : \E o \in GetStateOutcomes : GetStateSettles(i, o)
  \/ MayOpen /\ OpenModal("UsersTab")
  \/ Pristine("CreateUserModal", "groups") /\ \E v \in UserLists :
       FieldChange("CreateUserModal", "groups", v)
  \/ Pristine("CreateUserModal", "groups") /\ FieldBlur("CreateUserModal", "groups")

SpecUserList == Init /\ [][NextUserList]_vars

(***************************************************************************)
(* Properties                                                              *)
(***************************************************************************)
\* the step taken last spawned a command from the component named
Submitted(name) ==
  event.name = "submit" /\ event.origin = name /\ event.spawned # None

\* C1: when a mutating command (setup, create, modify, delete, passwd)
\* settles successfully, the same step issues a get-state request, which is
\* then the request issued last, and App shows the spinner; when a get-state
\* request settles successfully the displayed state is its normalised reply.
C1_RefreshAfterSuccess ==
  /\ (event.name = "settled" /\ event.ok) =>
       /\ event.spawned = Some(GetStateProc)
       /\ requests # <<>> /\ requests[Len(requests)]
       /\ loading
  /\ (event.name = "getStateSettled" /\ event.ok) =>
       LET o == event.outcome[1]
       IN  state = Some(normalized(IF o.text = <<>> THEN EmptyMap ELSE o.json[1]))

\* a group deletion has settled successfully and its refresh is in flight
C1_Witness ==
  /\ event.name = "settled" /\ event.ok /\ event.origin = "DeleteModal"
  /\ requests # <<>>

\* C2: a step changes the displayed state only if it is the settlement of a
\* get-state request, and then to the normalised reply or, on a failure, to
\* the uninitialized placeholder; no other step (field edit, opening or
\* closing a modal, submit, settlement of a command) changes it.
C2_StateWrittenByGetState ==
  [][state' # state =>
       /\ event'.name = "getStateSettled"
       /\ state' = IF event'.ok
                     THEN Some(normalized(getState(event'.outcome[1]).data))
                     ELSE Some(Placeholder)]_vars

\* a command has failed while the tabs show the state loaded before
C2_Witness ==
  /\ event.name = "settled" /\ ~event.ok /\ event.origin # "Unmounted"
  /\ View = "tabs" /\ state # None

\* the forms that submit a setup, create or modify command
Forms ==
  {"InitialSetup", "CreateUserModal", "ModifyUserModal", "CreateGroupModal",
   "ModifyGroupModal", "CreateShareModal", "ModifyShareModal"}

\* C3: a setup, create or modify command is spawned from a form only if the
\* validator of every field of the form accepts the value the field holds.
C3_NoCommandWhileFieldRejected ==
  \A name \in Forms :
    Submitted(name) =>
      \A f \in DOMAIN dialogs[name].fields :
        Validate(name, f, dialogs[name].fields[f].value, dialogs[name]).isValid

\* C4: at most one mutating command is in flight.
C4_OneCommandInFlight == InFlight(procs) <= 1

\* C5: when no get-state request is in flight and the request issued last
\* was answered, with no request failing since, the displayed state is that
\* answer.
C5_LastIssuedReplyDisplayed ==
  (requests = <<>> /\ answer # None) => state = answer

\* C6: when a command of a mounted dialog fails, the step shows the message
\* of the child process in that dialog, leaves the dialog open if it was,
\* sets its loading flag to false and issues no get-state request.
C6_FailureShownInDialog ==
  [][\A name \in DialogNames :
       (event'.name = "settled" /\ ~event'.ok /\ event'.origin = name) =>
         LET o == event'.outcome[1]
         IN  /\ dialogs'[name].error = Some(IF o.rejected THEN o.message ELSE o.text)
             /\ IsOpen(name) => IsOpen(name)'
             /\ ~dialogs'[name].loading
             /\ event'.spawned = None /\ requests' = requests]_vars

\* C7: while the tabs are shown, Users, Groups and Shares are among them
\* exactly when the permission object says superuser, Password exactly when
\* it does not, and Overview always; the mounted tab components are these,
\* and a command is submitted only from a modal of a mounted tab component.
C7_TabsFollowPermission ==
  View = "tabs" =>
    LET shown == Range(TabsOf(isRoot))
        root == IsSuperuser(permission)
    IN  /\ "overview" \in shown
        /\ \A t \in {"users", "groups", "shares"} : t \in shown <=> root
        /\ "password" \in shown <=> ~root
        /\ MountedTabs(subtree) =
             IF root THEN {"UsersTab", "GroupsTab", "SharesTab"} ELSE {"PasswordTab"}
        /\ event.name = "submit" =>
             \E tk \in ShownBy[event.origin] : tk[1] \in MountedTabs(subtree)

\* the permission object has signalled the loss of superuser while the tabs are shown
C7_Witness ==
  /\ View = "tabs" /\ event.name = "permissionChanged"
  /\ ~IsSuperuser(permission) /\ subtree = "tabs-user"

\* C8: a command spawned by ModifyUserModal or ModifyShareModal ends with
\* --quota, the quota argument and --json; the argument is none when the
\* quota field is empty and the value of the field otherwise.
C8_EmptyQuotaIsNone ==
  \A name \in {"ModifyUserModal", "ModifyShareModal"} :
    Submitted(name) =>
      LET argv == event.spawned[1].argv
          quota == dialogs[name].fields.quota.value
      IN  /\ argv[Len(argv) - 2] = L___quota
          /\ argv[Len(argv) - 1] = IF quota = <<>> THEN L_none ELSE quota
          /\ argv[Len(argv)] = L___json

\* a home quota has been submitted with the field empty
C8_Witness ==
  /\ Submitted("ModifyUserModal")
  /\ dialogs["ModifyUserModal"].fields.quota.value = <<>>

\* C9: when a get-state request settles with empty output, or fails with a
\* message that contains "not initialized", App shows Initial Setup and no
\* error; when it fails otherwise (the child process rejects, the output
\* does not parse, the output starts with "error:") App shows the error page
\* with the message of the failure.
C9_GetStateFailureViews ==
  event.name = "getStateSettled" =>
    LET o == event.outcome[1]
        unparseable == ~o.rejected /\ o.text # <<>> /\ o.json = None
        failed == o.rejected \/ unparseable
        message == IF o.rejected THEN o.message
                   ELSE IF startsWith(toLowerCase(o.text), M_errorPrefix) THEN o.text
                   ELSE M_parseState
    IN  /\ (~o.rejected /\ o.text = <<>>) => (View = "setup" /\ error = None)
        /\ (failed /\ includes(message, M_notInitialized)) =>
             (View = "setup" /\ error = None)
        /\ (failed /\ ~includes(message, M_notInitialized)) =>
             (View = "error" /\ error = Some(message))

\* a get-state request was rejected with a "not initialized" message
C9_Witness ==
  /\ event.name = "getStateSettled" /\ event.outcome[1].rejected
  /\ includes(event.outcome[1].message, M_notInitialized)
  /\ View = "setup"

\* C10: passwd is spawned only by the submit of ChangePasswordModal, with the
\* New Password field not empty and equal to the Confirm field, and is
\* written the password and a newline, twice.
C10_PasswdOnlyWhenMatching ==
  (event.spawned # None /\ event.spawned[1].api = "passwd") =>
    LET d == dialogs["ChangePasswordModal"]
        password == d.fields.password.value
    IN  /\ event.name = "submit" /\ event.origin = "ChangePasswordModal"
        /\ password # <<>>
        /\ password = d.fields.confirm.value
        /\ event.spawned[1].stdin = Some(password \o <<NL>> \o password \o <<NL>>)

\* passwd has been spawned from ChangePasswordModal
C10_Witness ==
  /\ Submitted("ChangePasswordModal")
  /\ dialogs["ChangePasswordModal"].fields.password.value = S_pw

\* C11: when a command spawned through smbZfsApi.run exits with a JSON object
\* whose error member is truthy, the promise is rejected: the dialog is not
\* closed and no get-state request is issued.
C11_ErrorMemberRejects ==
  (/\ event.name = "settled" /\ event.outcome # None
   /\ ~event.outcome[1].rejected /\ event.outcome[1].json # None
   /\ Field(event.outcome[1].json[1], "error", <<>>) # <<>>) =>
    ~event.ok /\ event.spawned = None

\* C12: a child process is spawned with superuser required exactly when its
\* command is setup, create, modify, delete or passwd.
C12_SuperuserForMutations ==
  event.spawned # None =>
    LET p == event.spawned[1]
    IN  p.superuser <=>
          p.argv[2] \in {L_setup, L_create, L_modify, L_delete, L_passwd}

\* C13: in ChangePasswordModal, once the confirm field has been touched it is
\* valid exactly when it is not empty and equal to the New Password field, and
\* the Set Password button is enabled when both fields hold the same non-empty
\* value and no command of the dialog is in flight.
C13_ConfirmFollowsPassword ==
  LET d == dialogs["ChangePasswordModal"]
      password == d.fields.password.value
      confirm == d.fields.confirm
  IN  (IsOpen("ChangePasswordModal") /\ confirm.touched) =>
        /\ isValidOf(confirm) <=> (confirm.value # <<>> /\ confirm.value = password)
        /\ (password # <<>> /\ password = confirm.value /\ ~d.loading) =>
             ButtonEnabled("ChangePasswordModal", d)

\* C14: when ModifyUserModal or ModifyShareModal is opened for an entity, its
\* quota field (and comment field) holds the quota (and comment) that the
\* displayed state gives for that entity.
C14_ModifyStartsFromEntity ==
  [][/\ (~IsOpen("ModifyUserModal") /\ IsOpen("ModifyUserModal")') =>
          dialogs'["ModifyUserModal"].fields.quota.value =
            state'[1].users[tabs'["UsersTab"].selected[1]].quota
     /\ (~IsOpen("ModifyShareModal") /\ IsOpen("ModifyShareModal")') =>
          LET share == state'[1].shares[tabs'["SharesTab"].selected[1]]
          IN  /\ dialogs'["ModifyShareModal"].fields.quota.value = share.quota
              /\ dialogs'["ModifyShareModal"].fields.comment.value = share.comment]_vars

\* C15: when DeleteUserModal or DeleteShareModal is opened, its "permanently
\* delete data" option is unchecked.
C15_DeleteDataStartsUnchecked ==
  [][\A name \in {"DeleteUserModal", "DeleteShareModal"} :
       (~IsOpen(name) /\ IsOpen(name)') => ~dialogs'[name].flags.deleteData]_vars

\* C16: once App has mounted, the loading flag is true exactly while a
\* get-state request is in flight, so the spinner is shown, and the tabs are
\* not, as long as one is pending.
C16_LoadingWhilePending ==
  mounted =>
    /\ loading <=> requests # <<>>
    /\ requests # <<>> => View = "spinner"

\* C17: for every field of a shown form, the stored validation result is the
\* field's validator applied to the value the field holds, before the first
\* change or blur included.
C17_ValidationOfCurrentValue ==
  \A name \in DialogNames :
    IsOpen(name) =>
      \A f \in DOMAIN dialogs[name].fields :
        dialogs[name].fields[f].validation =
          Validate(name, f, dialogs[name].fields[f].value, dialogs[name])

\* C18: a field exposes an error only when it is touched, and then the error
\* of its stored validation result; while its component stays mounted a
\* touched field stays touched, and a change or blur of a field of a shown
\* form leaves the field touched.
C18_ErrorOnlyAfterTouch ==
  [][\A name \in DialogNames : \A f \in DOMAIN dialogs[name].fields :
       LET a == dialogs[name].fields[f]
           b == dialogs'[name].fields[f]
       IN  /\ errorOf(b) # None => b.touched
           /\ b.touched => errorOf(b) = b.validation.error
           /\ subtree' = subtree =>
                /\ a.touched => b.touched
                /\ (IsOpen(name) /\ b # a) => b.touched]_vars

\* a blurred field of a shown form exposes the error of its validator
C18_Witness ==
  \E name \in DialogNames : \E f \in DOMAIN dialogs[name].fields :
    /\ IsOpen(name) /\ event.name = "input" /\ event.origin = name
    /\ dialogs[name].fields[f].touched
    /\ errorOf(dialogs[name].fields[f]) # None

\* the share names the specification accepts: 1 to 80 characters, the first a
\* letter or digit, the rest letters, digits and separators, no two separators
\* adjacent and none at the end
ShareNameAccepted(v) ==
  LET alnum == Lower \cup Upper \cup Digit
      seps == {".", "_", "-", ":"}
  IN  /\ Len(v) \in 1..80
      /\ v[1] \in alnum
      /\ \A i \in 1..Len(v) : v[i] \in alnum \cup seps
      /\ \A i \in 1..(Len(v) - 1) : ~(v[i] \in seps /\ v[i + 1] \in seps)
      /\ v[Len(v)] \notin seps

\* C19: the validation result of a typed or blurred Share Name is valid
\* exactly for the names of 1 to 80 characters that start with a letter or
\* digit, consist of letters, digits and the separators . _ - : and have no
\* empty component; the empty name is rejected as required.
C19_ShareNameAccepted ==
  LET fld == dialogs["CreateShareModal"].fields.shareName
  IN  (IsOpen("CreateShareModal") /\ fld.touched) =>
        /\ fld.validation = validateName(fld.value, "share")
        /\ fld.validation.isValid <=> ShareNameAccepted(fld.value)
        /\ fld.value = <<>> => fld.validation.error[1].text = "name is required."

\* a share name of 80 characters has been typed and is accepted
C19_Witness ==
  LET fld == dialogs["CreateShareModal"].fields.shareName
  IN  IsOpen("CreateShareModal") /\ Len(fld.value) = 80 /\ fld.validation.isValid

\* the quotas the specification accepts: empty, the word none in any case, or
\* digits, optionally "." and digits, optionally one unit letter
QuotaAccepted(v) ==
  LET units == {"k", "m", "g", "t", "p", "e", "z", "K", "M", "G", "T", "P", "E", "Z"}
      Digits(a, b) == a <= b /\ \A k \in a..b : v[k] \in Digit
  IN  \/ v = <<>>
      \/ /\ Len(v) = 4
         /\ v[1] \in {"n", "N"} /\ v[2] \in {"o", "O"} /\ v[3] \in {"n", "N"} /\ v[4] \in {"e", "E"}
      \/ \E i \in 1..Len(v) : \E j \in i..Len(v) :
           /\ Digits(1, i)
           /\ j = i \/ (v[i + 1] = "." /\ Digits(i + 2, j))
           /\ Len(v) = j \/ (Len(v) = j + 1 /\ v[j + 1] \in units)

\* C20: the validation result of a typed or blurred quota is valid exactly
\* for the empty string, the word none in any letter case, and a decimal
\* number optionally followed by one unit letter among k, m, g, t, p, e, z in
\* either case; every other string is rejected with the quota message.
C20_QuotaAccepted ==
  LET fld == dialogs["ModifyUserModal"].fields.quota
  IN  (IsOpen("ModifyUserModal") /\ fld.touched) =>
        /\ fld.validation = validateQuota(fld.value)
        /\ fld.validation.isValid <=> QuotaAccepted(fld.value)
        /\ ~fld.validation.isValid =>
             fld.validation.error[1].text =
               "Quota must be 'none' or numeric value with optional unit (e.g., 512M, 120G, 1.5T)"

\* a decimal quota with an upper-case unit has been typed and is accepted
C20_Witness ==
  LET fld == dialogs["ModifyUserModal"].fields.quota
  IN  /\ IsOpen("ModifyUserModal") /\ fld.value = <<"1", ".", "1", "G">>
      /\ fld.validation.isValid


\* the elements of a comma-separated list: the pairs <<i, j>> such that
\* v[i..j] is a maximal piece without a comma (j = i - 1 for an empty piece)
Elements(v) ==
  { e \in (1..(Len(v) + 1)) \X (0..Len(v)) :
      /\ e[2] >= e[1] - 1
      /\ e[1] = 1 \/ v[e[1] - 1] = ","
      /\ e[2] = Len(v) \/ v[e[2] + 1] = ","
      /\ \A k \in e[1]..e[2] : v[k] # "," }

\* an element without the blanks around it
Trimmed(v, e) ==
  LET inked == { k \in e[1]..e[2] : v[k] # " " }
  IN  IF inked = {} THEN <<>>
      ELSE SubSeq(v, CHOOSE k \in inked : \A m \in inked : k <= m,
                     CHOOSE k \in inked : \A m \in inked : k >= m)

\* 1 to 32 characters, first a lowercase letter or underscore, the rest
\* lowercase letters, digits, underscores or hyphens
AccountNameAccepted(s) ==
  /\ Len(s) \in 1..32
  /\ s[1] \in Lower \cup {"_"}
  /\ \A k \in 2..Len(s) : s[k] \in Lower \cup Digit \cup {"_", "-"}

\* an element is fine if it is blank, a user name, or "@" and a group name
ElementAccepted(v, e) ==
  LET t == Trimmed(v, e)
  IN  \/ t = <<>>
      \/ AccountNameAccepted(t)
      \/ t[1] = "@" /\ AccountNameAccepted(SubSeq(t, 2, Len(t)))

UserListAccepted(v) == \A e \in Elements(v) : ElementAccepted(v, e)

\* the leftmost element of the list that is not fine
FirstRejected(v) ==
  LET bad == { e \in Elements(v) : ~ElementAccepted(v, e) }
  IN  Trimmed(v, CHOOSE e \in bad : \A d \in bad : e[1] <= d[1])

\* C21: the validation result of a typed or blurred user list is valid
\* exactly when every element that is non-empty after trimming is a valid
\* user name or "@" followed by a valid group name; the empty string and
\* lists of empty elements are accepted, and the error is the one of the
\* first invalid element.
C21_UserListAccepted ==
  LET fld == dialogs["CreateUserModal"].fields.groups
      first == FirstRejected(fld.value)
      isGroup == first[1] = "@"
  IN  (IsOpen("CreateUserModal") /\ fld.touched) =>
        /\ fld.validation = validateUserList(fld.value)
        /\ fld.validation.isValid <=> UserListAccepted(fld.value)
        /\ (\A k \in 1..Len(fld.value) : fld.value[k] \in {",", " "}) => fld.validation.isValid
        /\ ~fld.validation.isValid =>
             /\ fld.validation.error[1].text =
                  (IF isGroup THEN "Invalid group in list" ELSE "Invalid user in list")
             /\ fld.validation.error[1].itemType = (IF isGroup THEN "group" ELSE "user")
             /\ fld.validation.error[1].name =
                  (IF isGroup THEN SubSeq(first, 2, Len(first)) ELSE first)

\* a list of a user and a group with a blank element has been typed and is
\* accepted
C21_Witness ==
  LET fld == dialogs["CreateUserModal"].fields.groups
  IN  /\ IsOpen("CreateUserModal") /\ fld.touched
      /\ fld.value = <<"a", ",", "@", "_">>
      /\ fld.validation.isValid

\* a list whose second element is the first invalid one has been typed and
\* is rejected
C21_WitnessRejected ==
  LET fld == dialogs["CreateUserModal"].fields.groups
  IN  /\ IsOpen("CreateUserModal") /\ fld.touched
      /\ fld.value = <<"a", ",", "@", "A">>
      /\ ~fld.validation.isValid
====
